---- MODULE Spec2Model ----
(***************************************************************************)
(* Model of src/app.py (TryHackMe yearly activity plotter).                *)
(*                                                                         *)
(* Dates are triples <<year, month, day>>.  A date string is the tuple of  *)
(* its dash-separated numeric fields, so "2023-02-29" is <<2023, 2, 29>>    *)
(* and the empty string is << >>; date.fromisoformat accepts it only when  *)
(* it names a day of the calendar.  Exceptions are modelled by the name of *)
(* their class; main catches RequestException and ValueError only.         *)
(***************************************************************************)
EXTENDS Integers, Sequences, FiniteSets, TLC

\* ------------------------------------------------------------------ bounds
MaxRecords == 2
MaxCount == 2
MaxItems == 2
MaxLen == 5

ModelYears == {2023, 2024}
ModelTodays == {<<2022, 12, 31>>, <<2023, 1, 2>>, <<2024, 3, 1>>, <<2024, 12, 31>>}

\* ---------------------------------------------------------------- calendar
IsLeap(y) == (y % 4 = 0 /\ y % 100 # 0) \/ y % 400 = 0

DaysInMonth(y, m) ==
  IF m = 2 THEN (IF IsLeap(y) THEN 29 ELSE 28)
  ELSE IF m \in {4, 6, 9, 11} THEN 30 ELSE 31

DaysInYear(y) == IF IsLeap(y) THEN 366 ELSE 365

\* a < b, a <= b on dates
DateLT(a, b) ==
  \/ a[1] < b[1]
  \/ a[1] = b[1] /\ a[2] < b[2]
  \/ a[1] = b[1] /\ a[2] = b[2] /\ a[3] < b[3]

DateLE(a, b) == a = b \/ DateLT(a, b)

DateMin(a, b) == IF DateLE(a, b) THEN a ELSE b

\* cursor + dt.timedelta(days=1)
NextDay(d) ==
  IF d[3] < DaysInMonth(d[1], d[2]) THEN <<d[1], d[2], d[3] + 1>>
  ELSE IF d[2] < 12 THEN <<d[1], d[2] + 1, 1>>
  ELSE <<d[1] + 1, 1, 1>>

\* dt.date.fromisoformat(date_str): the date, or ValueError
FromIsoFormat(s) ==
  IF /\ Len(s) = 3
     /\ s[1] \in 1..9999
     /\ s[2] \in 1..12
     /\ s[3] \in 1..DaysInMonth(s[1], s[2])
  THEN [err |-> "none", date |-> s]
  ELSE [err |-> "ValueError", date |-> << >>]

\* ----------------------------------------------------------------- records
\* An item of the yearlyActivity list.  kind "dict" is a JSON object with an
\* optional date string and an optional count; kind "other" is any JSON value
\* that is not an object (a string, a number, null).
CountMissing == [kind |-> "missing", val |-> 0]
CountNull == [kind |-> "null", val |-> 0]
CountBadStr == [kind |-> "badstr", val |-> 0]
CountObj == [kind |-> "obj", val |-> 0]
CountInt(n) == [kind |-> "int", val |-> n]

Entry(d, c) == [kind |-> "dict", date |-> d, count |-> c]
NonDictEntry == [kind |-> "other", date |-> << >>, count |-> CountMissing]

\* int(entry.get("count", 0) or 0)
IntOfCount(c) ==
  CASE c.kind = "missing" -> [err |-> "none", val |-> 0]
    [] c.kind = "null" -> [err |-> "none", val |-> 0]
    [] c.kind = "int" -> [err |-> "none", val |-> c.val]
    [] c.kind = "badstr" -> [err |-> "ValueError", val |-> 0]
    [] OTHER -> [err |-> "TypeError", val |-> 0]

\* activity_map.get(d, 0)
MapGet(m, d) == IF d \in DOMAIN m THEN m[d] ELSE 0

\* activity_map[d] = c
MapPut(m, d, c) == [x \in (DOMAIN m) \cup {d} |-> IF x = d THEN c ELSE m[x]]

EmptyMap == [x \in {} |-> 0]

NoSeries(e) == [err |-> e, dates |-> << >>, counts |-> << >>]

\* One iteration of the record loop of build_date_series: the map after the
\* entry, or the exception the iteration raises.
DateSeriesEntry(m, entry) ==
  IF entry.kind # "dict" THEN [err |-> "AttributeError", map |-> m]
  ELSE LET c == IntOfCount(entry.count)
           p == FromIsoFormat(entry.date)
       IN IF c.err # "none" THEN [err |-> c.err, map |-> m]
          ELSE IF p.err # "none" THEN [err |-> "none", map |-> m]
          ELSE [err |-> "none", map |-> MapPut(m, p.date, c.val)]

\* CombinedEntry with the merge of build_date_series: the count overwrites
\* what the map holds.
CombinedEntryOverwrite(m, entry) ==
  IF entry.kind # "dict" THEN [err |-> "AttributeError", map |-> m]
  ELSE LET c == IntOfCount(entry.count)
           p == FromIsoFormat(entry.date)
       IN IF c.err # "none" THEN [err |-> c.err, map |-> m]
          ELSE IF p.err # "none" THEN [err |-> "none", map |-> m]
          ELSE [err |-> "none", map |-> MapPut(m, p.date, c.val)]

\* One iteration of the record loop of build_combined_series.
CombinedEntry(m, entry) ==
  IF entry.kind # "dict" THEN [err |-> "AttributeError", map |-> m]
  ELSE LET c == IntOfCount(entry.count)
           p == FromIsoFormat(entry.date)
       IN IF c.err # "none" THEN [err |-> c.err, map |-> m]
          ELSE IF p.err # "none" THEN [err |-> "none", map |-> m]
          ELSE [err |-> "none", map |-> MapPut(m, p.date, MapGet(m, p.date) + c.val)]

\* for entry in activity: ... of build_date_series, from entry i on
RECURSIVE DateSeriesLoop(_, _, _)
DateSeriesLoop(m, activity, i) ==
  IF i > Len(activity) THEN [err |-> "none", map |-> m]
  ELSE LET r == DateSeriesEntry(m, activity[i])
       IN IF r.err # "none" THEN r ELSE DateSeriesLoop(r.map, activity, i + 1)

\* for entry in activity: ... of build_combined_series, from entry i on
RECURSIVE CombinedLoop(_, _, _)
CombinedLoop(m, activity, i) ==
  IF i > Len(activity) THEN [err |-> "none", map |-> m]
  ELSE LET r == CombinedEntry(m, activity[i])
       IN IF r.err # "none" THEN r ELSE CombinedLoop(r.map, activity, i + 1)

\* activities_by_year.get(year, [])
ByYearGet(byYear, y) == IF y \in DOMAIN byYear THEN byYear[y] ELSE << >>

\* for year in years: ... of build_combined_series, from year k on
RECURSIVE CombinedYears(_, _, _, _)
CombinedYears(m, years, byYear, k) ==
  IF k > Len(years) THEN [err |-> "none", map |-> m]
  ELSE LET r == CombinedLoop(m, ByYearGet(byYear, years[k]), 1)
       IN IF r.err # "none" THEN r ELSE CombinedYears(r.map, years, byYear, k + 1)

\* The last day the loop reaches before cursor leaves its month or passes
\* endDate.
MonthStop(cursor, endDate) ==
  DateMin(endDate, <<cursor[1], cursor[2], DaysInMonth(cursor[1], cursor[2])>>)

\* while cursor <= end_date: dates.append(cursor); counts.append(...); cursor += 1 day
\* One unfolding takes the iterations of the loop that stay inside the month
\* of cursor (there the step of one day is a step of the day field), and
\* resumes on the day after the last of them.
RECURSIVE WalkDays(_, _, _, _, _)
WalkDays(cursor, endDate, m, dates, counts) ==
  IF ~DateLE(cursor, endDate) THEN [err |-> "none", dates |-> dates, counts |-> counts]
  ELSE LET stop == MonthStop(cursor, endDate)
           chunk == [i \in 1..(stop[3] - cursor[3] + 1) |->
                       <<cursor[1], cursor[2], cursor[3] + i - 1>>]
       IN WalkDays(NextDay(stop), endDate, m,
                   dates \o chunk,
                   counts \o [i \in 1..Len(chunk) |-> MapGet(m, chunk[i])])

SeqMin(s) == CHOOSE x \in {s[i] : i \in 1..Len(s)} : \A j \in 1..Len(s) : x <= s[j]
SeqMax(s) == CHOOSE x \in {s[i] : i \in 1..Len(s)} : \A j \in 1..Len(s) : x >= s[j]

\* BuildDateSeries without the clamp of end_date to today.
BuildDateSeriesNoClamp(year, activity, now) ==
  LET r == DateSeriesLoop(EmptyMap, activity, 1)
      startDate == <<year, 1, 1>>
      endDate == <<year, 12, 31>>
  IN IF r.err # "none" THEN NoSeries(r.err)
     ELSE IF DateLT(now, startDate) THEN NoSeries("ValueError")
     ELSE WalkDays(startDate, endDate, r.map, << >>, << >>)

\* build_date_series(year, activity), with dt.date.today() = now
BuildDateSeries(year, activity, now) ==
  LET r == DateSeriesLoop(EmptyMap, activity, 1)
      startDate == <<year, 1, 1>>
      endDate == DateMin(now, <<year, 12, 31>>)
  IN IF r.err # "none" THEN NoSeries(r.err)
     ELSE IF DateLT(endDate, startDate) THEN NoSeries("ValueError")
     ELSE WalkDays(startDate, endDate, r.map, << >>, << >>)

\* BuildCombinedSeries without the check of start_date against end_date.
BuildCombinedSeriesNoCheck(years, byYear, now) ==
  LET r == CombinedYears(EmptyMap, years, byYear, 1)
  IN IF r.err # "none" THEN NoSeries(r.err)
     ELSE IF Len(years) = 0 THEN NoSeries("ValueError")
     ELSE WalkDays(<<SeqMin(years), 1, 1>>, DateMin(now, <<SeqMax(years), 12, 31>>),
                   r.map, << >>, << >>)

\* build_combined_series(years, activities_by_year), with dt.date.today() = now
BuildCombinedSeries(years, byYear, now) ==
  LET r == CombinedYears(EmptyMap, years, byYear, 1)
  IN IF r.err # "none" THEN NoSeries(r.err)
     ELSE IF Len(years) = 0 THEN NoSeries("ValueError")
     ELSE LET startDate == <<SeqMin(years), 1, 1>>
              endDate == DateMin(now, <<SeqMax(years), 12, 31>>)
          IN IF DateLT(endDate, startDate) THEN NoSeries("ValueError")
             ELSE WalkDays(startDate, endDate, r.map, << >>, << >>)

\* sorted(S) for a finite set of integers
RECURSIVE SortedSeq(_)
SortedSeq(S) ==
  IF S = {} THEN << >>
  ELSE LET m == CHOOSE x \in S : \A y \in S : x <= y
       IN <<m>> \o SortedSeq(S \ {m})

\* ------------------------------------------------------- optional values
\* None (of a string, of an int), or a present value v
NoStr == [some |-> FALSE, v |-> << >>]
NoInt == [some |-> FALSE, v |-> 0]
Some(x) == [some |-> TRUE, v |-> x]

\* ----------------------------------------------------------------- strings
\* A string is a sequence of atoms; the atoms "http:" and "https:" stand for
\* those substrings, every other atom is one character.
Strip(s) ==
  LET I == {i \in 1..Len(s) : s[i] # " "}
  IN IF I = {} THEN << >>
     ELSE SubSeq(s, CHOOSE i \in I : \A j \in I : i <= j,
                    CHOOSE i \in I : \A j \in I : j <= i)

\* text.rstrip("/")
RStripSlash(s) ==
  LET I == {i \in 1..Len(s) : s[i] # "/"}
  IN IF I = {} THEN << >>
     ELSE SubSeq(s, 1, CHOOSE i \in I : \A j \in I : j <= i)

\* s.split("/")
RECURSIVE SplitSlash(_)
SplitSlash(s) ==
  LET I == {i \in 1..Len(s) : s[i] = "/"}
  IN IF I = {} THEN <<s>>
     ELSE LET k == CHOOSE i \in I : \A j \in I : i <= j
          IN <<SubSeq(s, 1, k - 1)>> \o SplitSlash(SubSeq(s, k + 1, Len(s)))

StartsWith(s, prefix) ==
  Len(s) >= Len(prefix) /\ SubSeq(s, 1, Len(prefix)) = prefix

\* text.startswith("http://") or text.startswith("https://")
IsUrl(text) ==
  StartsWith(text, <<"http:", "/", "/">>) \/ StartsWith(text, <<"https:", "/", "/">>)

\* ResolveUsername that takes the last segment of every URL.
ResolveUsernameLast(username, raw_input, typed) ==
  LET first == IF username.some /\ username.v # << >> THEN username ELSE raw_input
      candidate == IF ~first.some \/ Strip(first.v) = << >> THEN Strip(typed) ELSE first.v
      text == Strip(candidate)
      parts == SplitSlash(RStripSlash(text))
  IN IF IsUrl(text) THEN parts[Len(parts)] ELSE text

\* resolve_username(username, raw_input); typed is what input() returns when
\* the prompt is shown
ResolveUsername(username, raw_input, typed) ==
  LET first == IF username.some /\ username.v # << >> THEN username ELSE raw_input
      candidate == IF ~first.some \/ Strip(first.v) = << >> THEN Strip(typed) ELSE first.v
      text == Strip(candidate)
      parts == SplitSlash(RStripSlash(text))
      P == {i \in 1..Len(parts) : parts[i] = <<"p">>}
      index == CHOOSE i \in P : \A j \in P : i <= j
  IN IF IsUrl(text)
     THEN IF P # {} /\ index + 1 <= Len(parts) THEN parts[index + 1]
          ELSE parts[Len(parts)]
     ELSE text

\* ------------------------------------------------------------------- years
\* An item of the comma-separated --years value, after item.strip(): blank,
\* the decimal text of an integer, or any other text.
BlankToken == [kind |-> "blank", val |-> 0]
BadToken == [kind |-> "bad", val |-> 0]
NumToken(n) == [kind |-> "num", val |-> n]

\* int(item)
IntOfToken(t) ==
  IF t.kind = "num" THEN [err |-> "none", val |-> t.val]
  ELSE [err |-> "ValueError", val |-> 0]

\* resolve_year(value) for value None or an int
ResolveYear(value, now) == IF ~value.some THEN now[1] ELSE value.v

\* for item in str(args.years).split(","): ..., from item i on
RECURSIVE YearsLoop(_, _, _)
YearsLoop(years, items, i) ==
  IF i > Len(items) THEN [err |-> "none", years |-> years]
  ELSE IF items[i].kind = "blank" THEN YearsLoop(years, items, i + 1)
  ELSE LET n == IntOfToken(items[i])
       IN IF n.err # "none" THEN [err |-> n.err, years |-> years]
          ELSE YearsLoop(Append(years, n.val), items, i + 1)

\* list(range(start, end + 1))
RangeSeq(start, end) == [i \in 1..(end + 1 - start) |-> start + i - 1]

SeqSet(s) == {s[i] : i \in 1..Len(s)}

\* ParseYears that appends args.year to the list and the range.
ParseYearsWithYear(args, now) ==
  LET listed == IF args.years.some /\ args.years.v # << >>
                THEN YearsLoop(<< >>, args.years.v, 1)
                ELSE [err |-> "none", years |-> << >>]
      s0 == IF args.year_start.some THEN args.year_start.v ELSE ResolveYear(NoInt, now)
      e0 == IF args.year_end.some THEN args.year_end.v ELSE ResolveYear(NoInt, now)
      start == IF s0 > e0 THEN e0 ELSE s0
      end == IF s0 > e0 THEN s0 ELSE e0
      ranged == IF args.year_start.some \/ args.year_end.some
                THEN listed.years \o RangeSeq(start, end)
                ELSE listed.years
      years == IF ranged = << >> \/ args.year.some
               THEN ranged \o <<ResolveYear(args.year, now)>> ELSE ranged
  IN IF listed.err # "none" THEN [err |-> listed.err, years |-> << >>]
     ELSE [err |-> "none", years |-> SortedSeq(SeqSet(years))]

\* ParseYears that does not swap start and end.
ParseYearsNoSwap(args, now) ==
  LET listed == IF args.years.some /\ args.years.v # << >>
                THEN YearsLoop(<< >>, args.years.v, 1)
                ELSE [err |-> "none", years |-> << >>]
      start == IF args.year_start.some THEN args.year_start.v ELSE ResolveYear(NoInt, now)
      end == IF args.year_end.some THEN args.year_end.v ELSE ResolveYear(NoInt, now)
      ranged == IF args.year_start.some \/ args.year_end.some
                THEN listed.years \o RangeSeq(start, end)
                ELSE listed.years
      years == IF ranged = << >> THEN <<ResolveYear(args.year, now)>> ELSE ranged
  IN IF listed.err # "none" THEN [err |-> listed.err, years |-> << >>]
     ELSE [err |-> "none", years |-> SortedSeq(SeqSet(years))]

\* parse_years(args); args.years is None or the list of the items of the
\* value (the empty list for the empty string), the other fields are None
\* or an int
ParseYears(args, now) ==
  LET listed == IF args.years.some /\ args.years.v # << >>
                THEN YearsLoop(<< >>, args.years.v, 1)
                ELSE [err |-> "none", years |-> << >>]
      s0 == IF args.year_start.some THEN args.year_start.v ELSE ResolveYear(NoInt, now)
      e0 == IF args.year_end.some THEN args.year_end.v ELSE ResolveYear(NoInt, now)
      start == IF s0 > e0 THEN e0 ELSE s0
      end == IF s0 > e0 THEN s0 ELSE e0
      ranged == IF args.year_start.some \/ args.year_end.some
                THEN listed.years \o RangeSeq(start, end)
                ELSE listed.years
      years == IF ranged = << >> THEN <<ResolveYear(args.year, now)>> ELSE ranged
  IN IF listed.err # "none" THEN [err |-> listed.err, years |-> << >>]
     ELSE [err |-> "none", years |-> SortedSeq(SeqSet(years))]

\* ---------------------------------------------------------------- fetching
\* What requests.get meets: a transport failure, or a response with a status
\* and a body.  The body is JSON or not; a JSON body is an object (kind
\* "dict") or another value; its "data" member is missing, an object, or
\* another value (null, a list); inside data, "_id" is missing, empty or an
\* identifier, and "yearlyActivity" is missing, a list of items, or another
\* value.
Body(json, kind, data, id, activity, items) ==
  [json |-> json, kind |-> kind, data |-> data, id |-> id,
   activity |-> activity, items |-> items]
NotJson == Body(FALSE, "other", "missing", "missing", "missing", << >>)
JsonOther == Body(TRUE, "other", "missing", "missing", "missing", << >>)
DataOther == Body(TRUE, "dict", "other", "missing", "missing", << >>)
DataMissing == Body(TRUE, "dict", "missing", "missing", "missing", << >>)
ProfileBody(id) == Body(TRUE, "dict", "dict", id, "missing", << >>)
ActivityBody(activity, items) == Body(TRUE, "dict", "dict", "missing", activity, items)

TransportFailure == [net |-> "error", status |-> 0, body |-> NotJson]
Response(status, body) == [net |-> "ok", status |-> status, body |-> body]

\* requests.get(...), response.raise_for_status(), response.json() and the
\* two .get(...) lookups shared by both fetchers: the exception raised
\* before the field is read, or "none"
PayloadError(resp) ==
  IF resp.net # "ok" THEN "ConnectionError"
  ELSE IF resp.status >= 400 /\ resp.status < 600 THEN "HTTPError"
  ELSE IF ~resp.body.json THEN "JSONDecodeError"
  ELSE IF resp.body.kind # "dict" THEN "AttributeError"
  ELSE IF resp.body.data = "other" THEN "AttributeError"
  ELSE "none"

\* fetch_user_id(username), given the response to its request
FetchUserId(resp) ==
  LET e == PayloadError(resp)
  IN IF e # "none" THEN [err |-> e, id |-> "missing"]
     ELSE IF resp.body.data = "missing" \/ resp.body.id # "id"
          THEN [err |-> "ValueError", id |-> "missing"]
     ELSE [err |-> "none", id |-> resp.body.id]

\* FetchYearlyActivity without the test for status 404.
FetchYearlyActivityNo404(resp) ==
  LET e == PayloadError(resp)
  IN IF e # "none" THEN [err |-> e, absent |-> FALSE, activity |-> << >>]
     ELSE IF resp.body.data = "missing" \/ resp.body.activity = "missing"
          THEN [err |-> "none", absent |-> FALSE, activity |-> << >>]
     ELSE IF resp.body.activity # "list"
          THEN [err |-> "ValueError", absent |-> FALSE, activity |-> << >>]
     ELSE [err |-> "none", absent |-> FALSE, activity |-> resp.body.items]

\* fetch_yearly_activity(user_id, year), given the response to its request;
\* absent is the None it returns for status 404
FetchYearlyActivity(resp) ==
  LET e == PayloadError(resp)
  IN IF resp.net = "ok" /\ resp.status = 404
     THEN [err |-> "none", absent |-> TRUE, activity |-> << >>]
     ELSE IF e # "none" THEN [err |-> e, absent |-> FALSE, activity |-> << >>]
     ELSE IF resp.body.data = "missing" \/ resp.body.activity = "missing"
          THEN [err |-> "none", absent |-> FALSE, activity |-> << >>]
     ELSE IF resp.body.activity # "list"
          THEN [err |-> "ValueError", absent |-> FALSE, activity |-> << >>]
     ELSE [err |-> "none", absent |-> FALSE, activity |-> resp.body.items]

\* the except clauses of main
IsRequestException(e) == e \in {"ConnectionError", "HTTPError", "JSONDecodeError"}
Caught(e) == IsRequestException(e) \/ e = "ValueError"

NoToken == [some |-> FALSE, v |-> BlankToken]

\* ArgparseInt that leaves a value that is no integer unset.
ArgparseIntLenient(opt) ==
  IF ~opt.some \/ IntOfToken(opt.v).err # "none" THEN [err |-> "none", val |-> NoInt]
  ELSE [err |-> "none", val |-> Some(IntOfToken(opt.v).val)]

\* argparse's type=int on an option given as text: None stays None
ArgparseInt(opt) ==
  IF ~opt.some THEN [err |-> "none", val |-> NoInt]
  ELSE IF IntOfToken(opt.v).err # "none" THEN [err |-> "SystemExit", val |-> NoInt]
  ELSE [err |-> "none", val |-> Some(IntOfToken(opt.v).val)]

\* ------------------------------------------------------------------- state
VARIABLES
  today,     \* dt.date.today()
  bcall,     \* builder call in flight: function name and arguments
  bret,      \* what the builder call returned or raised
  ycall,     \* parse_years call in flight: the args namespace
  yret,      \* what parse_years returned or raised
  ucall,     \* resolve_username call in flight: username, raw_input, typed
  uret,      \* what resolve_username returned
  pc,        \* where main is: "idle", "start", "fetch_user_id", "fetch_yearly", "exited"
  argv,      \* the command line, and what the user types at the prompt
  username,  \* main's username
  years,     \* main's years
  idx,       \* position of the for loop in years
  user_id,   \* main's user_id
  activities_by_year,
  exit_code, \* exit status of the process, -1 while it runs
  report,    \* the last message shown to the user
  failed,    \* the function whose exception ended main, or "none"
  escaped,   \* TRUE when an exception left main unhandled
  gets,      \* the requests issued so far, with the response each one met
  built,     \* number of calls of build_combined_series
  plotted    \* the calls of plot_activity

pureVars == <<bcall, bret, ycall, yret, ucall, uret>>
mainVars == <<pc, argv, username, years, idx, user_id, activities_by_year,
              exit_code, report, failed, escaped, gets, built, plotted>>
vars == <<today, pureVars, mainVars>>

NoYearsCall == [years |-> NoStr, year_start |-> NoInt, year_end |-> NoInt, year |-> NoInt]
NoYearsRet == [err |-> "pending", years |-> << >>]
NoUserCall == [username |-> NoStr, raw_input |-> NoStr, typed |-> << >>]
NoUserRet == [done |-> FALSE, name |-> << >>]

NoArgv == [input |-> NoStr, username |-> NoStr, typed |-> << >>, years |-> NoStr,
           year |-> NoToken, year_start |-> NoToken, year_end |-> NoToken]
NoActivities == [y \in {} |-> << >>]

MainFresh ==
  /\ username = << >>
  /\ years = << >>
  /\ idx = 0
  /\ user_id = "missing"
  /\ activities_by_year = NoActivities
  /\ exit_code = -1
  /\ report = "none"
  /\ failed = "none"
  /\ escaped = FALSE
  /\ gets = << >>
  /\ built = 0
  /\ plotted = << >>

MainIdle == pc = "idle" /\ argv = NoArgv /\ MainFresh
YearsIdle == ycall = NoYearsCall /\ yret = NoYearsRet
UserIdle == ucall = NoUserCall /\ uret = NoUserRet

\* ------------------------------------------------- the builders in isolation
\* Records fed to the builders: a date inside the modelled years with every
\* kind of count, a leap day, and a date that is no calendar day.
ModelEntries ==
  {Entry(<<2024, 1, 1>>, c) :
     c \in {CountMissing, CountNull, CountBadStr} \cup {CountInt(n) : n \in 1..MaxCount}}
  \cup {Entry(<<2024, 2, 29>>, CountInt(n)) : n \in 1..MaxCount}
  \cup {Entry(<<2023, 2, 29>>, c) : c \in {CountInt(1), CountBadStr}}
RecLists == UNION {[1..k -> ModelEntries] : k \in 0..MaxRecords}

\* the records of recs that owner assigns to year y, in order
RECURSIVE OwnedBy(_, _, _, _)
OwnedBy(recs, owner, y, i) ==
  IF i > Len(recs) THEN << >>
  ELSE (IF owner[i] = y THEN <<recs[i]>> ELSE << >>) \o OwnedBy(recs, owner, y, i + 1)

NoCall == [fn |-> "none", year |-> 0, activity |-> << >>, years |-> << >>,
           byYear |-> [y \in {} |-> << >>]]
Pending == NoSeries("pending")

DateSeriesCallOf(y, a) ==
  [fn |-> "build_date_series", year |-> y, activity |-> a, years |-> << >>,
   byYear |-> [z \in {} |-> << >>]]

\* years and activities_by_year as main passes them: the sorted keys and
\* the dictionary
CombinedCallOf(S, recs, owner) ==
  [fn |-> "build_combined_series", year |-> 0, activity |-> << >>,
   years |-> SortedSeq(S),
   byYear |-> [y \in S |-> OwnedBy(recs, owner, y, 1)]]

BuilderInit ==
  /\ today \in ModelTodays
  /\ \/ \E y \in ModelYears, a \in RecLists : bcall = DateSeriesCallOf(y, a)
     \/ \E S \in SUBSET ModelYears, recs \in RecLists :
          \E owner \in [1..Len(recs) -> S] : bcall = CombinedCallOf(S, recs, owner)
  /\ bret = Pending
  /\ YearsIdle
  /\ UserIdle
  /\ MainIdle

BuildDateSeriesCall ==
  /\ bcall.fn = "build_date_series"
  /\ bret = Pending
  /\ bret' = BuildDateSeries(bcall.year, bcall.activity, today)
  /\ UNCHANGED <<today, bcall, ycall, yret, ucall, uret, mainVars>>

BuildCombinedSeriesCall ==
  /\ bcall.fn = "build_combined_series"
  /\ bret = Pending
  /\ bret' = BuildCombinedSeries(bcall.years, bcall.byYear, today)
  /\ UNCHANGED <<today, bcall, ycall, yret, ucall, uret, mainVars>>

BuilderNext == BuildDateSeriesCall \/ BuildCombinedSeriesCall

SpecBuild == BuilderInit /\ [][BuilderNext]_vars

Returned == bret.err = "none"
Called == bret # Pending

\* ------------------------------------------------------ builders: properties
\* The call's arguments as a list of record lists, and the call re-run on
\* changed lists.
CallLists(c) ==
  IF c.fn = "build_date_series" THEN <<c.activity>>
  ELSE [k \in 1..Len(c.years) |-> ByYearGet(c.byYear, c.years[k])]

RunCall(c, now) ==
  IF c.fn = "build_date_series" THEN BuildDateSeries(c.year, c.activity, now)
  ELSE BuildCombinedSeries(c.years, c.byYear, now)

RemoveAt(s, i) == [j \in 1..(Len(s) - 1) |-> IF j < i THEN s[j] ELSE s[j + 1]]

CallWithList(c, k, l) ==
  IF c.fn = "build_date_series" THEN [c EXCEPT !.activity = l]
  ELSE [c EXCEPT !.byYear[c.years[k]] = l]

Positions(c) ==
  UNION {{<<k, i>> : i \in 1..Len(CallLists(c)[k])} : k \in 1..Len(CallLists(c))}

RecordAt(c, p) == CallLists(c)[p[1]][p[2]]

\* calendar day number, counted from 0001-01-01
DaysBeforeYear(y) == (y - 1) * 365 + ((y - 1) \div 4) - ((y - 1) \div 100) + ((y - 1) \div 400)
DaysBeforeMonth(y, m) ==
  <<0, 31, 59, 90, 120, 151, 181, 212, 243, 273, 304, 334>>[m]
    + (IF m > 2 /\ IsLeap(y) THEN 1 ELSE 0)
DayNumber(d) == DaysBeforeYear(d[1]) + DaysBeforeMonth(d[1], d[2]) + d[3]

FirstYear(c) == IF c.fn = "build_date_series" THEN c.year ELSE SeqMin(c.years)
LastYear(c) == IF c.fn = "build_date_series" THEN c.year ELSE SeqMax(c.years)

\* C4: whenever a builder returns, dates and counts have equal length, the
\* series starts on Jan 1 of the (minimum) year, ends on min(today, Dec 31 of
\* the (maximum) year), every date is the calendar day after the previous
\* one, and build_date_series of a year that is entirely past returns
\* daysInYear(year) entries (366 with Feb 29 and Dec 31 for a leap year).
C4_DenseSeries ==
  Returned =>
    LET n == Len(bret.dates)
        lastDay == <<LastYear(bcall), 12, 31>>
    IN /\ Len(bret.counts) = n
       /\ n >= 1
       /\ bret.dates[1] = <<FirstYear(bcall), 1, 1>>
       /\ bret.dates[n] = (IF DateLT(today, lastDay) THEN today ELSE lastDay)
       /\ \A i \in 1..n : FromIsoFormat(bret.dates[i]).err = "none"
       /\ \A i \in 1..(n - 1) : DayNumber(bret.dates[i + 1]) = DayNumber(bret.dates[i]) + 1
       /\ (bcall.fn = "build_date_series" /\ DateLE(lastDay, today)) =>
            /\ n = DaysInYear(bcall.year)
            /\ \E i \in 1..n : bret.dates[i] = <<bcall.year, 12, 31>>
            /\ IsLeap(bcall.year) =>
                 /\ n = 366
                 /\ \E i \in 1..n : bret.dates[i] = <<bcall.year, 2, 29>>

C4_Witness ==
  /\ Returned
  /\ bcall.fn = "build_date_series"
  /\ bcall.year = 2024
  /\ today = <<2024, 12, 31>>
  /\ Len(bret.dates) = 366

\* the count of the last record of activity dated d, 0 if there is none
LastCount(activity, d) ==
  LET I == {i \in 1..Len(activity) : FromIsoFormat(activity[i].date).date = d}
  IN IF I = {} THEN 0
     ELSE IntOfCount(activity[CHOOSE i \in I : \A j \in I : j <= i].count).val

\* the sum of the counts of the records of lists[k..] dated d
RECURSIVE SumList(_, _, _)
SumList(activity, d, i) ==
  IF i > Len(activity) THEN 0
  ELSE (IF FromIsoFormat(activity[i].date).date = d
        THEN IntOfCount(activity[i].count).val ELSE 0) + SumList(activity, d, i + 1)

RECURSIVE SumCount(_, _, _)
SumCount(lists, d, k) ==
  IF k > Len(lists) THEN 0
  ELSE SumList(lists[k], d, 1) + SumCount(lists, d, k + 1)

\* C5: for every date d of the output, build_date_series yields the count of
\* the last input record dated d, build_combined_series yields the sum of
\* the counts of all records dated d in all supplied years' lists, and a
\* date without a record yields 0.
C5_MergePolicy ==
  Returned =>
    \A i \in 1..Len(bret.dates) :
      bret.counts[i] =
        (IF bcall.fn = "build_date_series"
         THEN LastCount(bcall.activity, bret.dates[i])
         ELSE SumCount(CallLists(bcall), bret.dates[i], 1))

C5_Witness ==
  /\ Returned
  /\ bcall.fn = "build_combined_series"
  /\ Len(bcall.years) = 2
  /\ \E i \in 1..Len(bret.dates) :
       /\ bret.counts[i] = 3
       /\ SumList(bcall.byYear[bcall.years[1]], bret.dates[i], 1) = 1
       /\ SumList(bcall.byYear[bcall.years[2]], bret.dates[i], 1) = 2

WellFormed(c) ==
  \A p \in Positions(c) :
    /\ RecordAt(c, p).kind = "dict"
    /\ FromIsoFormat(RecordAt(c, p).date).err = "none"
    /\ RecordAt(c, p).count.kind = "int"

FutureRange(c) ==
  IF c.fn = "build_date_series" THEN DateLT(today, <<c.year, 1, 1>>)
  ELSE \/ Len(c.years) = 0
       \/ DateLT(DateMin(today, <<SeqMax(c.years), 12, 31>>), <<SeqMin(c.years), 1, 1>>)

\* C6: with well-formed records a builder raises the range error and returns
\* no series when years is empty or Jan 1 of the first year is after
\* min(today, Dec 31 of the last year); otherwise it returns a series.
C6_RangeError ==
  (Called /\ WellFormed(bcall)) =>
    /\ FutureRange(bcall) => bret = NoSeries("ValueError")
    /\ ~FutureRange(bcall) => (Returned /\ Len(bret.dates) >= 1)

C6_Witness ==
  /\ Called
  /\ WellFormed(bcall)
  /\ bcall.fn = "build_combined_series"
  /\ Len(bcall.years) = 2
  /\ Positions(bcall) # {}
  /\ bret = NoSeries("ValueError")

\* C10: a record with a malformed date string changes nothing in the result
\* of either builder, whatever its other fields hold, and a record whose
\* count is missing or null counts as 0.
C10_MalformedDropped ==
  Called =>
    \A p \in Positions(bcall) :
      LET l == CallLists(bcall)[p[1]]
          r == RecordAt(bcall, p)
      IN /\ FromIsoFormat(r.date).err # "none" =>
              bret = RunCall(CallWithList(bcall, p[1], RemoveAt(l, p[2])), today)
         /\ r.count.kind \in {"missing", "null"} =>
              bret = RunCall(CallWithList(bcall, p[1],
                                          [l EXCEPT ![p[2]].count = CountInt(0)]), today)

\* ------------------------------------------------- parse_years in isolation
ModelYearVals == {2020, 2021, 2022}
ModelTokens == {BlankToken, BadToken} \cup {NumToken(n) : n \in ModelYearVals}
OptYear == {NoInt} \cup {Some(n) : n \in ModelYearVals}

YearsCalls ==
  [years : {NoStr} \cup {Some(l) : l \in UNION {[1..k -> ModelTokens] : k \in 0..MaxItems}},
   year_start : OptYear, year_end : OptYear, year : OptYear]

BuilderIdle == bcall = NoCall /\ bret = Pending

YearsInit ==
  /\ today \in ModelTodays
  /\ ycall \in YearsCalls
  /\ yret = NoYearsRet
  /\ BuilderIdle
  /\ UserIdle
  /\ MainIdle

ParseYearsCall ==
  /\ yret = NoYearsRet
  /\ yret' = ParseYears(ycall, today)
  /\ UNCHANGED <<today, bcall, bret, ycall, ucall, uret, mainVars>>

SpecYears == YearsInit /\ [][ParseYearsCall]_vars

\* what the call's arguments hold
ListYears(a) ==
  IF a.years.some
  THEN {a.years.v[i].val : i \in {j \in 1..Len(a.years.v) : a.years.v[j].kind = "num"}}
  ELSE {}
Numeric(a) == a.years.some => \A i \in 1..Len(a.years.v) : a.years.v[i].kind # "bad"
HasRange(a) == a.year_start.some \/ a.year_end.some
Bound(o) == IF o.some THEN o.v ELSE today[1]
RangeYears(a) ==
  IF ~HasRange(a) THEN {}
  ELSE IF Bound(a.year_start) <= Bound(a.year_end)
       THEN Bound(a.year_start)..Bound(a.year_end)
       ELSE Bound(a.year_end)..Bound(a.year_start)

\* C7 as stated: the years of the list, the years of the range and the
\* --year value all appear in what parse_years returns.
C7_AllSourcesCombined ==
  yret.err = "none" =>
    /\ ListYears(ycall) \subseteq SeqSet(yret.years)
    /\ RangeYears(ycall) \subseteq SeqSet(yret.years)
    /\ ycall.year.some => ycall.year.v \in SeqSet(yret.years)

\* C7 amended: the list and the range are combined, and the --year value is
\* used only when they contribute no year; then it is the whole result.
C7_ListAndRangeCombined ==
  yret.err = "none" =>
    IF ListYears(ycall) \cup RangeYears(ycall) # {}
    THEN SeqSet(yret.years) = ListYears(ycall) \cup RangeYears(ycall)
    ELSE yret.years = <<Bound(ycall.year)>>

C7_Witness ==
  /\ yret.err = "none"
  /\ ycall.year = Some(2020)
  /\ ListYears(ycall) = {2021}
  /\ ycall.year_start = Some(2022)
  /\ yret.years = <<2021, 2022, 2023>>

\* C8: for numeric inputs parse_years returns a non-empty, strictly
\* ascending list; a range contributes every year between its bounds in
\* either order, a missing bound being the current year; without list and
\* range the result is the single year, or the current year.
C8_YearSet ==
  (yret # NoYearsRet /\ Numeric(ycall)) =>
    /\ yret.err = "none"
    /\ Len(yret.years) >= 1
    /\ \A i \in 1..(Len(yret.years) - 1) : yret.years[i] < yret.years[i + 1]
    /\ RangeYears(ycall) \subseteq SeqSet(yret.years)
    /\ (ListYears(ycall) = {} /\ ~HasRange(ycall)) =>
         yret.years = <<IF ycall.year.some THEN ycall.year.v ELSE today[1]>>

C8_Witness ==
  /\ yret.err = "none"
  /\ ycall.year_start = Some(2022)
  /\ ycall.year_end = Some(2020)
  /\ ListYears(ycall) = {2021}
  /\ Len(ycall.years.v) = 2
  /\ yret.years = <<2020, 2021, 2022>>

\* -------------------------------------------- resolve_username in isolation
ModelAtoms == {"/", "p", "a", " "}
ModelBodies == UNION {[1..k -> ModelAtoms] : k \in 0..MaxLen}
ModelPrefixes == {<< >>, <<" ">>, <<"http:", "/", "/">>, <<"https:", "/", "/">>,
                  <<" ", "https:", "/", "/">>}

\* the text arrives as --username, as the positional input, or at the prompt
UserCallsOf(t) ==
  {[username |-> Some(t), raw_input |-> NoStr, typed |-> <<"a">>]}
  \cup {[username |-> u, raw_input |-> Some(t), typed |-> <<"a">>] :
          u \in {NoStr, Some(<< >>)}}
  \cup {[username |-> NoStr, raw_input |-> r, typed |-> t] :
          r \in {NoStr, Some(<<" ">>)}}

UserInit ==
  /\ today \in {<<2024, 3, 1>>}
  /\ \E pre \in ModelPrefixes, body \in ModelBodies : ucall \in UserCallsOf(pre \o body)
  /\ uret = NoUserRet
  /\ BuilderIdle
  /\ YearsIdle
  /\ MainIdle

ResolveUsernameCall ==
  /\ ~uret.done
  /\ uret' = [done |-> TRUE, name |-> ResolveUsername(ucall.username, ucall.raw_input, ucall.typed)]
  /\ UNCHANGED <<today, bcall, bret, ycall, yret, ucall, mainVars>>

SpecUser == UserInit /\ [][ResolveUsernameCall]_vars

\* the string resolve_username works on when --username is given and not blank
GivenText == Strip(ucall.username.v)
GivenParts == SplitSlash(RStripSlash(GivenText))
UsernameGiven == uret.done /\ ucall.username.some /\ GivenText # << >>

\* C9 as stated: on a URL the result is the segment right after a "p" segment
\* whenever a "p" segment exists, otherwise the last segment; any other
\* string is returned trimmed.
C9_SegmentAfterP ==
  UsernameGiven =>
    IF IsUrl(GivenText)
    THEN IF \E i \in 1..Len(GivenParts) : GivenParts[i] = <<"p">>
         THEN \E i \in 1..(Len(GivenParts) - 1) :
                GivenParts[i] = <<"p">> /\ uret.name = GivenParts[i + 1]
         ELSE uret.name = GivenParts[Len(GivenParts)]
    ELSE uret.name = GivenText

\* C9 amended: the segment after the first "p" segment is returned when that
\* segment is not the last one; with no "p" segment, or with "p" as the last
\* segment, the last segment is returned.
C9_SegmentAfterFirstP ==
  UsernameGiven =>
    IF IsUrl(GivenText)
    THEN IF \E i \in 1..(Len(GivenParts) - 1) : GivenParts[i] = <<"p">>
         THEN \E i \in 1..(Len(GivenParts) - 1) :
                /\ GivenParts[i] = <<"p">>
                /\ \A j \in 1..(i - 1) : GivenParts[j] # <<"p">>
                /\ uret.name = GivenParts[i + 1]
         ELSE uret.name = GivenParts[Len(GivenParts)]
    ELSE uret.name = GivenText

C9_Witness ==
  /\ UsernameGiven
  /\ ucall.username.v = <<"https:", "/", "/", "a", "/", "p", "/", "a">>
  /\ uret.name = <<"a">>

\* ---------------------------------------------------------------------- main
\* Command lines main is run with.
MainUsers ==
  {[username |-> Some(<<"a">>), input |-> NoStr, typed |-> << >>],
   [username |-> NoStr, input |-> Some(<<"https:", "/", "/", "a", "/", "p", "/", "a", "/">>),
    typed |-> << >>],
   [username |-> NoStr, input |-> NoStr, typed |-> <<"a", " ">>]}
MainYearLists ==
  {NoStr, Some(<<NumToken(2024)>>), Some(<<NumToken(2023), NumToken(2024)>>),
   Some(<<NumToken(2023), BadToken>>)}
MainTodays == {<<2023, 1, 2>>, <<2024, 3, 1>>}

\* Responses the service is modelled to give.
MainItems ==
  {<< >>,
   <<Entry(<<2024, 1, 1>>, CountInt(1))>>,
   <<Entry(<<2023, 2, 29>>, CountInt(1))>>,
   <<Entry(<<2024, 1, 1>>, CountBadStr)>>,
   <<Entry(<<2024, 1, 1>>, CountObj)>>,
   <<NonDictEntry>>}
ProfileResponses ==
  {TransportFailure, Response(500, NotJson), Response(404, NotJson),
   Response(200, NotJson), Response(200, JsonOther), Response(200, DataOther),
   Response(200, DataMissing), Response(200, ProfileBody("missing")),
   Response(200, ProfileBody("empty")), Response(200, ProfileBody("id"))}
YearlyResponses ==
  {TransportFailure, Response(500, NotJson), Response(404, NotJson),
   Response(200, NotJson), Response(200, JsonOther), Response(200, DataOther),
   Response(200, DataMissing), Response(200, ActivityBody("missing", << >>)),
   Response(200, ActivityBody("other", << >>))}
  \cup {Response(200, ActivityBody("list", l)) : l \in MainItems}

MainInit ==
  /\ today \in MainTodays
  /\ pc = "start"
  /\ \E u \in MainUsers, l \in MainYearLists :
       \E y \in {NoToken, Some(NumToken(2024)), Some(BadToken)},
          ys \in {NoToken, Some(NumToken(2023)), Some(BadToken)},
          ye \in {NoToken, Some(NumToken(2024))} :
         argv = [input |-> u.input, username |-> u.username, typed |-> u.typed,
                 years |-> l, year |-> y, year_start |-> ys, year_end |-> ye]
  /\ MainFresh
  /\ BuilderIdle
  /\ YearsIdle
  /\ UserIdle

\* the process ends: by return from main, by SystemExit, or by the
\* interpreter after an unhandled exception (status 1)
Exit(code, message, fn, unhandled) ==
  /\ pc' = "exited"
  /\ exit_code' = code
  /\ report' = message
  /\ failed' = fn
  /\ escaped' = unhandled

\* an exception raised by fn inside the try block of main
Handle(fn, e) ==
  Exit(1,
       IF IsRequestException(e) THEN "Request failed"
       ELSE IF e = "ValueError" THEN "Error" ELSE "Traceback",
       fn, ~Caught(e))

\* label of the plot
Label(combined_years) ==
  IF Len(combined_years) = 1 THEN <<combined_years[1]>>
  ELSE <<combined_years[1], combined_years[Len(combined_years)]>>

\* main after the for loop, with the activities collected in byYear
AfterLoop(byYear) ==
  IF DOMAIN byYear = {}
  THEN /\ Exit(0, "No yearly activity data found for any requested year.", "none", FALSE)
       /\ UNCHANGED <<built, plotted>>
  ELSE LET combined_years == SortedSeq(DOMAIN byYear)
           series == BuildCombinedSeries(combined_years, byYear, today)
       IN /\ built' = built + 1
          /\ IF series.err # "none"
             THEN Handle("build_combined_series", series.err) /\ UNCHANGED plotted
             ELSE /\ plotted' = Append(plotted, [username |-> username,
                                                 label |-> Label(combined_years),
                                                 days |-> Len(series.dates)])
                  /\ Exit(0, report, "none", FALSE)

\* main up to the try block: parse_args, resolve_username, parse_years
Startup ==
  /\ pc = "start"
  /\ LET y == ArgparseInt(argv.year)
         ys == ArgparseInt(argv.year_start)
         ye == ArgparseInt(argv.year_end)
         args == [years |-> argv.years, year |-> y.val,
                  year_start |-> ys.val, year_end |-> ye.val]
         parsed == ParseYears(args, today)
     IN IF y.err # "none" \/ ys.err # "none" \/ ye.err # "none"
        THEN /\ Exit(2, "usage", "parse_args", FALSE)
             /\ UNCHANGED <<username, years>>
        ELSE /\ username' = ResolveUsername(argv.username, argv.input, argv.typed)
             /\ IF parsed.err # "none"
                THEN /\ Exit(1, "Year values must be numbers.", "parse_years", FALSE)
                     /\ UNCHANGED years
                ELSE /\ years' = parsed.years
                     /\ pc' = "fetch_user_id"
                     /\ UNCHANGED <<exit_code, report, failed, escaped>>
  /\ UNCHANGED <<today, pureVars, argv, idx, user_id, activities_by_year, gets, built, plotted>>

\* user_id = fetch_user_id(username)
FetchUserIdStep ==
  /\ pc = "fetch_user_id"
  /\ \E resp \in ProfileResponses :
       LET r == FetchUserId(resp)
       IN /\ gets' = Append(gets, [url |-> "PROFILE_URL", year |-> 0, resp |-> resp])
          /\ IF r.err # "none"
             THEN Handle("fetch_user_id", r.err) /\ UNCHANGED <<user_id, idx>>
             ELSE /\ user_id' = r.id
                  /\ idx' = 1
                  /\ pc' = "fetch_yearly"
                  /\ report' = "User ID found"
                  /\ UNCHANGED <<exit_code, failed, escaped>>
  /\ UNCHANGED <<today, pureVars, argv, username, years, activities_by_year, built, plotted>>

\* one iteration of the for loop of main; after the last one, the rest of main
FetchYearlyStep ==
  /\ pc = "fetch_yearly"
  /\ \E resp \in YearlyResponses :
       LET year == years[idx]
           r == FetchYearlyActivity(resp)
           byYear == IF r.absent THEN activities_by_year
                     ELSE [y \in (DOMAIN activities_by_year) \cup {year} |->
                             IF y = year THEN r.activity ELSE activities_by_year[y]]
       IN /\ gets' = Append(gets, [url |-> "YEARLY_URL", year |-> year, resp |-> resp])
          /\ IF r.err # "none"
             THEN /\ Handle("fetch_yearly_activity", r.err)
                  /\ UNCHANGED <<activities_by_year, idx, built, plotted>>
             ELSE /\ activities_by_year' = byYear
                  /\ IF idx < Len(years)
                     THEN /\ idx' = idx + 1
                          /\ report' = (IF r.absent THEN "No data found; skipping."
                                        ELSE "Fetched activity records.")
                          /\ UNCHANGED <<pc, exit_code, failed, escaped, built, plotted>>
                     ELSE /\ AfterLoop(byYear)
                          /\ UNCHANGED idx
  /\ UNCHANGED <<today, pureVars, argv, username, years, user_id>>

MainNext == Startup \/ FetchUserIdStep \/ FetchYearlyStep

SpecMain == MainInit /\ [][MainNext]_vars

\* ---------------------------------------------------------- main: properties
NotFound(g) == g.url = "YEARLY_URL" /\ g.resp.net = "ok" /\ g.resp.status = 404
AllNotFound == Len(gets) = Len(years) + 1 /\ \A i \in 2..Len(gets) : NotFound(gets[i])

\* C1: a year whose fetch is answered 404 is skipped and the loop goes on to
\* the next requested year; a run in which no call fails fetches every
\* requested year; when all of them are answered 404 main reports it and
\* exits 0 without build_combined_series or plot_activity.
C1_NotFoundSkips ==
  /\ \A i \in 2..Len(gets) :
       NotFound(gets[i]) =>
         /\ gets[i].year = years[i - 1]
         /\ years[i - 1] \notin DOMAIN activities_by_year
         /\ i < Len(gets) => gets[i + 1].year = years[i]
         /\ (i = Len(gets) /\ i - 1 < Len(years)) =>
              (pc = "fetch_yearly" /\ idx = i /\ exit_code = -1)
         /\ (i = Len(gets) /\ i - 1 = Len(years)) => pc = "exited"
  /\ (pc = "exited" /\ failed \in {"none", "build_combined_series"}) =>
       Len(gets) = Len(years) + 1
  /\ (pc = "exited" /\ AllNotFound) =>
       /\ exit_code = 0
       /\ report = "No yearly activity data found for any requested year."
       /\ failed = "none"
       /\ ~escaped
       /\ built = 0
       /\ plotted = << >>

C1_Witness ==
  /\ pc = "exited"
  /\ Len(years) = 2
  /\ AllNotFound
  /\ exit_code = 0

\* C2: when fetch_user_id, fetch_yearly_activity or build_combined_series
\* fails, the process exits with 1, plot_activity is not called, and the
\* exception does not leave main.
C2_FailuresRecovered ==
  failed \in {"fetch_user_id", "fetch_yearly_activity", "build_combined_series"} =>
    /\ pc = "exited"
    /\ exit_code = 1
    /\ plotted = << >>
    /\ ~escaped

BadListed(a) == a.years.some /\ \E i \in 1..Len(a.years.v) : a.years.v[i].kind = "bad"
BadTyped(a) ==
  \E o \in {a.year, a.year_start, a.year_end} : o.some /\ o.v.kind = "bad"

\* C3 as stated: any non-numeric year token, in --years or as the value of
\* --year, --year-start or --year-end, is reported and ends the program with
\* exit code 1 before any fetch.
C3_BadYearExitsOne ==
  ((BadListed(argv) \/ BadTyped(argv)) /\ pc # "start") =>
    /\ pc = "exited"
    /\ exit_code = 1
    /\ report # "none"
    /\ gets = << >>

\* C3 amended: a non-numeric value of --year, --year-start or --year-end is
\* rejected by argparse with exit status 2; otherwise a non-numeric item of
\* --years is reported by main, which returns 1; no fetch is issued in
\* either case.
C3_BadYearRejected ==
  /\ (BadTyped(argv) /\ pc # "start") =>
       /\ pc = "exited"
       /\ exit_code = 2
       /\ report = "usage"
       /\ gets = << >>
  /\ (BadListed(argv) /\ ~BadTyped(argv) /\ pc # "start") =>
       /\ pc = "exited"
       /\ exit_code = 1
       /\ report = "Year values must be numbers."
       /\ gets = << >>

C3_Witness ==
  /\ pc = "exited"
  /\ BadListed(argv)
  /\ ~BadTyped(argv)
  /\ argv.year_start.some
  /\ exit_code = 1

====
